---------------------------- MODULE Spec2Model ----------------------------
(***************************************************************************)
(* Model of ctrix/confusables: the table generator (maketables.go) and the *)
(* skeleton engine (confusables.go).                                       *)
(*                                                                         *)
(* Go strings are modelled as sequences of bytes (0..255), runes as        *)
(* integers.  Go's half-open slice s[a:b] (0-based) is Slice(s, a, b).     *)
(***************************************************************************)
EXTENDS Integers, Sequences, FiniteSets, TLC

\* ------------------------------------------------------------------------
\* Program constants
\* ------------------------------------------------------------------------

\* maketables.go: MaxChar = 0x10FFFF
MaxChar == 1114111

\* maketables.go: NumField (iota = 3)
NumField == 3

\* unicode/utf8.RuneError, the rune DecodeRuneInString and string([]rune)
\* produce for an invalid encoding / an invalid rune
RuneError == 65533

\* ------------------------------------------------------------------------
\* Go string primitives on byte sequences
\* ------------------------------------------------------------------------

\* s[a:b]
Slice(s, a, b) == SubSeq(s, a + 1, b)

\* strings.HasPrefix(s, p)
HasPrefix(s, p) == Len(s) >= Len(p) /\ Slice(s, 0, Len(p)) = p

\* strings.Index(s[from:], sep) + from, or -1 (sep non-empty)
RECURSIVE IndexFrom(_, _, _)
IndexFrom(s, sep, from) ==
    IF from + Len(sep) > Len(s) THEN -1
    ELSE IF Slice(s, from, from + Len(sep)) = sep THEN from
    ELSE IndexFrom(s, sep, from + 1)

\* strings.Contains(s, sub)
Contains(s, sub) == IndexFrom(s, sub, 0) >= 0

\* strings.Split(s, sep) for a non-empty sep
RECURSIVE Split(_, _)
Split(s, sep) ==
    LET j == IndexFrom(s, sep, 0)
    IN  IF j < 0 THEN <<s>>
        ELSE <<Slice(s, 0, j)>> \o Split(Slice(s, j + Len(sep), Len(s)), sep)

\* strings.Replace(s, old, new, -1) for a non-empty old
RECURSIVE ReplaceAll(_, _, _)
ReplaceAll(s, old, new) ==
    LET j == IndexFrom(s, old, 0)
    IN  IF j < 0 THEN s
        ELSE Slice(s, 0, j) \o new
             \o ReplaceAll(Slice(s, j + Len(old), Len(s)), old, new)

\* ------------------------------------------------------------------------
\* UTF-8
\* ------------------------------------------------------------------------

\* utf8.ValidRune
ValidRune(r) == (0 <= r /\ r < 55296) \/ (57343 < r /\ r <= 1114111)

\* the UTF-8 encoding of one valid rune
EncodeValid(r) ==
    IF r < 128 THEN <<r>>
    ELSE IF r < 2048 THEN <<192 + (r \div 64), 128 + (r % 64)>>
    ELSE IF r < 65536
         THEN <<224 + (r \div 4096), 128 + ((r \div 64) % 64), 128 + (r % 64)>>
    ELSE <<240 + (r \div 262144), 128 + ((r \div 4096) % 64),
           128 + ((r \div 64) % 64), 128 + (r % 64)>>

\* string(rune): an invalid rune is encoded as U+FFFD
EncodeRune(r) == IF ValidRune(r) THEN EncodeValid(r) ELSE EncodeValid(RuneError)

\* The recursive operators on strings bind their argument to a value
\* (x \in {arg}) before using it: inside ENABLED, TLC evaluates an operator
\* argument anew at each of its uses.

\* string([]rune)
RECURSIVE RunesToString(_)
RunesToString(runes) ==
    CHOOSE r \in {IF rs = <<>> THEN <<>>
                  ELSE EncodeRune(Head(rs)) \o RunesToString(Tail(rs)) :
                  rs \in {runes}} : TRUE

IsCont(b) == 128 <= b /\ b <= 191

\* utf8.DecodeRuneInString(s[i:]) for i < len(s): <<rune, width>>
DecodeRuneInString(s, i) ==
    LET n  == Len(s) - i
        b0 == s[i + 1]
        bad == <<RuneError, 1>>
    IN  IF b0 < 128 THEN <<b0, 1>>
        ELSE IF b0 >= 194 /\ b0 <= 223
        THEN IF n >= 2 /\ IsCont(s[i + 2])
             THEN <<(b0 - 192) * 64 + (s[i + 2] - 128), 2>>
             ELSE bad
        ELSE IF b0 >= 224 /\ b0 <= 239
        THEN IF n >= 3 /\ IsCont(s[i + 2]) /\ IsCont(s[i + 3])
             THEN LET r == (b0 - 224) * 4096 + (s[i + 2] - 128) * 64
                           + (s[i + 3] - 128)
                  IN  IF r >= 2048 /\ ValidRune(r) THEN <<r, 3>> ELSE bad
             ELSE bad
        ELSE IF b0 >= 240 /\ b0 <= 244
        THEN IF n >= 4 /\ IsCont(s[i + 2]) /\ IsCont(s[i + 3])
                /\ IsCont(s[i + 4])
             THEN LET r == (b0 - 240) * 262144 + (s[i + 2] - 128) * 4096
                           + (s[i + 3] - 128) * 64 + (s[i + 4] - 128)
                  IN  IF r >= 65536 /\ ValidRune(r) THEN <<r, 4>> ELSE bad
             ELSE bad
        ELSE bad

\* []rune(s)
RECURSIVE StringToRunes(_)
StringToRunes(str) ==
    CHOOSE r \in {IF s = <<>> THEN <<>>
                  ELSE LET d == DecodeRuneInString(s, 0)
                       IN  <<d[1]>> \o StringToRunes(Slice(s, d[2], Len(s))) :
                  s \in {str}} : TRUE


\* ------------------------------------------------------------------------
\* Bounds of the model
\* ------------------------------------------------------------------------

\* most lines of a dataset after its preamble
MaxLines == 2

\* longest input of a Skeleton call, in codepoints
MaxInputLen == 2

\* longest replacement string of an arbitrary map, in codepoints
MaxReplLen == 1

\* concurrent Skeleton calls, and the longest input of each, in codepoints
NumCallers == 2
MaxConcLen == 1

\* ------------------------------------------------------------------------
\* Table builder: parsing (maketables.go)
\* ------------------------------------------------------------------------

\* value of one hexadecimal digit byte, -1 for any other byte
HexDigitVal(b) ==
    IF 48 <= b /\ b <= 57 THEN b - 48
    ELSE IF 97 <= b /\ b <= 102 THEN b - 97 + 10
    ELSE IF 65 <= b /\ b <= 70 THEN b - 65 + 10
    ELSE -1

RECURSIVE StripZeros(_)
StripZeros(ds) ==
    IF ds # <<>> /\ Head(ds) = 0 THEN StripZeros(Tail(ds)) ELSE ds

\* strconv.ParseUint(s, 16, 64): err for an empty text, a byte that is no
\* hex digit, or a value above 2^64-1 (more than 16 significant digits);
\* the value is kept as its significant hex digits, most significant first
ParseUint(s) ==
    LET ds == [j \in 1..Len(s) |-> HexDigitVal(s[j])]
    IN  IF s = <<>> \/ \E j \in 1..Len(s) : ds[j] < 0
        THEN [err |-> TRUE, digits |-> <<>>]
        ELSE IF Len(StripZeros(ds)) > 16
        THEN [err |-> TRUE, digits |-> StripZeros(ds)]
        ELSE [err |-> FALSE, digits |-> StripZeros(ds)]

\* value of at most eight hex digits whose total is below 2^31
RECURSIVE DigitsValue(_)
DigitsValue(ds) ==
    IF ds = <<>> THEN 0
    ELSE 16 * DigitsValue(SubSeq(ds, 1, Len(ds) - 1)) + ds[Len(ds)]

\* rune(x) for a uint64 x: the low 32 bits read as a signed int32
RuneOfUint64(digits) ==
    LET n   == Len(digits)
        low == IF n > 8 THEN SubSeq(digits, n - 7, n) ELSE digits
    IN  IF Len(low) = 8 /\ low[1] >= 8
        THEN -(DigitsValue([j \in 1..8 |-> 15 - low[j]])) - 1
        ELSE DigitsValue(low)

\* parsePoint(pointString, line): fatal, or the rune
parsePoint(pointString) ==
    LET p     == ParseUint(pointString)
        point == RuneOfUint64(p.digits)
    IN  IF p.err THEN [fatal |-> TRUE, point |-> 0]
        ELSE IF point = 0 THEN [fatal |-> TRUE, point |-> 0]
        ELSE IF point > MaxChar THEN [fatal |-> TRUE, point |-> 0]
        ELSE [fatal |-> FALSE, point |-> point]

Sep == <<32, 59, 9>>     \* " ;\t"
TagMA == <<77, 65>>      \* "MA"

\* parseCharacter(line): fatal, or the entries appended to confusables
parseCharacter(line) ==
    IF Len(line) = 0 \/ line[1] = 35
    THEN [fatal |-> FALSE, add |-> <<>>]
    ELSE LET field == Split(line, Sep)
         IN  IF Len(field) # NumField
             THEN [fatal |-> TRUE, add |-> <<>>]
             ELSE IF ~HasPrefix(field[3], TagMA)
             THEN [fatal |-> FALSE, add |-> <<>>]
             ELSE LET src  == parsePoint(field[1])
                      tcp  == Split(field[2], <<32>>)
                      tgts == [j \in 1..Len(tcp) |-> parsePoint(tcp[j])]
                  IN  IF src.fatal \/ \E j \in 1..Len(tcp) : tgts[j].fatal
                      THEN [fatal |-> TRUE, add |-> <<>>]
                      ELSE [fatal |-> FALSE,
                            add |-> <<[k |-> src.point,
                                       v |-> [j \in 1..Len(tcp) |->
                                                 tgts[j].point]]>>]

\* parseHeader(line): <<whether the header has ended, the comment appended
\* to originalHeader>>
parseHeader(line) ==
    LET l == IF Len(line) > 3 /\ Slice(line, 0, 3) = <<239, 187, 191>>
             THEN Slice(line, 3, Len(line)) ELSE line
    IN  IF Len(l) = 0 \/ l[1] # 35
        THEN [ended |-> TRUE, add |-> <<>>]
        ELSE [ended |-> FALSE,
              add |-> <<47, 47>> \o Slice(l, 1, Len(l)) \o <<10>>]

\* ------------------------------------------------------------------------
\* Table builder: override rules and output (maketables.go, makeTables)
\* ------------------------------------------------------------------------

StrRN == <<114, 110>>           \* "rn"
StrPi == EncodeValid(960)       \* "π"
StrMu == EncodeValid(956)       \* "μ"
StrChi == EncodeValid(967)      \* "χ"
StrSmallR == EncodeValid(640)   \* "ʀ"
StrKo == EncodeValid(4782)      \* "ኮ"

\* the if / else-if chain of makeTables for one entry c: the entries it
\* writes to out (none, or one <<key, replacement string>>)
EmitEntry_PiAfterMu(c) ==
    LET sv == RunesToString(c.v)
    IN  IF Contains(sv, StrRN)
        THEN IF EncodeRune(c.k) # <<109>>
             THEN <<[k |-> c.k, v |-> ReplaceAll(sv, StrRN, <<109>>)]>>
             ELSE <<>>
        ELSE IF Contains(sv, StrMu)
        THEN <<[k |-> c.k, v |-> ReplaceAll(sv, StrMu, <<117>>)]>>
        ELSE IF Contains(sv, StrPi)
        THEN <<[k |-> c.k, v |-> ReplaceAll(sv, StrPi, <<110>>)]>>
        ELSE IF Contains(sv, StrChi)
        THEN <<[k |-> c.k, v |-> ReplaceAll(sv, StrChi, <<120>>)]>>
        ELSE IF Contains(sv, StrSmallR)
        THEN <<[k |-> c.k, v |-> ReplaceAll(sv, StrSmallR, <<82>>)]>>
        ELSE IF Contains(sv, StrKo)
        THEN <<[k |-> c.k, v |-> ReplaceAll(sv, StrKo, <<114>>)]>>
        ELSE <<[k |-> c.k, v |-> sv]>>

EmitEntry(c) ==
    LET sv == RunesToString(c.v)
    IN  IF Contains(sv, StrRN)
        THEN IF EncodeRune(c.k) # <<109>>
             THEN <<[k |-> c.k, v |-> ReplaceAll(sv, StrRN, <<109>>)]>>
             ELSE <<>>
        ELSE IF Contains(sv, StrPi)
        THEN <<[k |-> c.k, v |-> ReplaceAll(sv, StrPi, <<110>>)]>>
        ELSE IF Contains(sv, StrMu)
        THEN <<[k |-> c.k, v |-> ReplaceAll(sv, StrMu, <<117>>)]>>
        ELSE IF Contains(sv, StrChi)
        THEN <<[k |-> c.k, v |-> ReplaceAll(sv, StrChi, <<120>>)]>>
        ELSE IF Contains(sv, StrSmallR)
        THEN <<[k |-> c.k, v |-> ReplaceAll(sv, StrSmallR, <<82>>)]>>
        ELSE IF Contains(sv, StrKo)
        THEN <<[k |-> c.k, v |-> ReplaceAll(sv, StrKo, <<114>>)]>>
        ELSE <<[k |-> c.k, v |-> sv]>>

\* the range loop of makeTables over confusables
RECURSIVE EmitAll(_)
EmitAll(cs) ==
    IF cs = <<>> THEN <<>> ELSE EmitEntry(Head(cs)) \o EmitAll(Tail(cs))

\* the fixed entries makeTables appends: <<rune, one ASCII byte>>
SupplementaryPairs ==
    << <<5842, 66>>,  <<65346, 98>>,  <<65316, 68>>,  <<7693, 100>>,
       <<65348, 100>>, <<65318, 70>>, <<65350, 102>>, <<65319, 71>>,
       <<65355, 107>>, <<65324, 76>>, <<65357, 109>>, <<628, 78>>,
       <<65358, 110>>, <<4269, 81>>,  <<4275, 81>>,   <<65329, 81>>,
       <<65361, 113>>, <<65330, 82>>, <<640, 82>>,    <<5809, 82>>,
       <<65362, 114>>, <<4285, 83>>,  <<65364, 116>>, <<1329, 85>>,
       <<65333, 85>>,  <<65365, 117>>, <<65334, 86>>, <<65335, 87>>,
       <<65367, 119>>, <<65370, 122>>, <<960, 110>> >>

Supplementary ==
    [j \in 1..Len(SupplementaryPairs) |->
        [k |-> SupplementaryPairs[j][1], v |-> <<SupplementaryPairs[j][2]>>]]


\* ------------------------------------------------------------------------
\* Dataset lines the builder is run on (the confusables.txt format)
\* ------------------------------------------------------------------------

HexChar(d) == IF d < 10 THEN 48 + d ELSE 55 + d

\* the text of a number given by its hex digits
HexText(ds) == [j \in 1..Len(ds) |-> HexChar(ds[j])]

RECURSIVE HexDigitsOf(_)
HexDigitsOf(n) ==
    IF n < 16 THEN <<n>> ELSE HexDigitsOf(n \div 16) \o <<n % 16>>

\* the text of a codepoint
Hex(n) == HexText(HexDigitsOf(n))

TagSA == <<83, 65>>      \* "SA"

\* "<source> ;\t<target> ;\t<tag>" for one- and two-codepoint targets
Line1(src, tgt, tag) == src \o Sep \o tgt \o Sep \o tag
Line2(src, t1, t2, tag) == src \o Sep \o t1 \o <<32>> \o t2 \o Sep \o tag

CommentLine == <<35, 32, 104>>                    \* "# h"
BomCommentLine == <<239, 187, 191>> \o CommentLine
BlankLine == <<>>

\* lines the builder accepts
GoodLines ==
    { Line1(Hex(961), Hex(112), TagMA \o <<9, 35, 32, 120>>), \* ρ -> p, with a trailing comment
      Line2(Hex(8575), Hex(114), Hex(110), TagMA),  \* ⅿ -> rn
      Line2(Hex(109), Hex(114), Hex(110), TagMA),   \* m -> rn
      Line1(Hex(982), Hex(960), TagMA),          \* ϖ -> π
      Line1(Hex(181), Hex(956), TagMA),          \* µ -> μ
      Line1(Hex(43859), Hex(967), TagMA),        \* ꭓ -> χ
      Line1(Hex(422), Hex(640), TagMA),          \* Ʀ -> ʀ
      Line1(Hex(4781), Hex(4782), TagMA),        \* ክ -> ኮ
      Line2(Hex(120587), Hex(960), Hex(956), TagMA), \* a target "πμ"
      Line1(Hex(960), Hex(110), TagMA),          \* π -> n
      Line1(Hex(65), Hex(55296), TagMA),         \* A -> a surrogate, D800
      Line1(Hex(65), Hex(66), TagSA) }           \* another class

\* lines with a wrong field count or a bad codepoint
BadLines ==
    { Hex(65) \o Sep \o Hex(66),                           \* two fields
      Line1(Hex(1114112), Hex(65), TagMA),                 \* 110000
      Line1(Hex(65), <<48>>, TagMA),                       \* target 0
      Line1(Hex(65), <<71>>, TagMA),                       \* target "G"
      Line1(Hex(1114112), Hex(65), TagSA),                 \* 110000, not MA
      Line1(HexText(<<1, 0, 0, 0, 0, 0, 0, 4, 1>>), Hex(66), TagMA),
      Line1(Hex(67), HexText(<<15, 15, 15, 15, 15, 15, 15, 15>>), TagMA) }

Lines == {CommentLine, BlankLine} \cup GoodLines \cup BadLines

\* how a file starts: its '#' lines and the blank line after them
Preambles ==
    {<<>>, <<CommentLine>>, <<CommentLine, BlankLine>>,
     <<BomCommentLine, CommentLine, BlankLine>>}

RECURSIVE SeqsUpTo(_, _)
SeqsUpTo(S, n) ==
    IF n = 0 THEN {<<>>}
    ELSE LET shorter == SeqsUpTo(S, n - 1)
         IN  shorter \cup {Append(q, x) : q \in shorter, x \in S}

Files == {h \o b : h \in Preambles, b \in SeqsUpTo(Lines, MaxLines)}

\* ------------------------------------------------------------------------
\* State
\* ------------------------------------------------------------------------

VARIABLES
    file,            \* the lines of confusables.txt
    pos,             \* lines the scanner has delivered
    bpc,             \* where the builder is
    confusables,     \* var confusables []C
    originalHeader,  \* the bytes appended to originalHeader
    out,             \* the map entries written by makeTables, in order
    confusablesMap,  \* the generated map[rune]string of package confusables
    calls            \* the Skeleton calls in progress

vars == <<file, pos, bpc, confusables, originalHeader, out, confusablesMap,
          calls>>

\* ------------------------------------------------------------------------
\* Table builder: loadUnicodeData and makeTables
\* ------------------------------------------------------------------------

\* first loop of loadUnicodeData: one line through parseHeader; the line
\* that ends the header leaves the loop (break)
ScanHeader ==
    /\ bpc = "header"
    /\ pos < Len(file)
    /\ LET h == parseHeader(file[pos + 1])
       IN  /\ originalHeader' = originalHeader \o h.add
           /\ bpc' = IF h.ended THEN "body" ELSE "header"
    /\ pos' = pos + 1
    /\ UNCHANGED <<file, confusables, out, confusablesMap, calls>>

\* second loop of loadUnicodeData: one line through parseCharacter
ScanBody ==
    /\ bpc = "body"
    /\ pos < Len(file)
    /\ LET r == parseCharacter(file[pos + 1])
       IN  /\ confusables' = confusables \o r.add
           /\ bpc' = IF r.fatal THEN "fatal" ELSE "body"
    /\ pos' = pos + 1
    /\ UNCHANGED <<file, originalHeader, out, confusablesMap, calls>>

\* scanner.Scan() returns false: loadUnicodeData returns
EndOfInput ==
    /\ bpc \in {"header", "body"}
    /\ pos = Len(file)
    /\ bpc' = "make"
    /\ UNCHANGED <<file, pos, confusables, originalHeader, out,
                   confusablesMap, calls>>

\* makeTables
MakeTables ==
    /\ bpc = "make"
    /\ out' = EmitAll(confusables) \o Supplementary
    /\ bpc' = "done"
    /\ UNCHANGED <<file, pos, confusables, originalHeader, confusablesMap,
                   calls>>

NextBuild == ScanHeader \/ ScanBody \/ EndOfInput \/ MakeTables

IdleCall == [pc |-> "idle", arg |-> <<>>, s |-> <<>>, i |-> 0, w |-> 0]

Callers == 1..NumCallers

NoCalls == [p \in Callers |-> IdleCall]

InitBuild ==
    /\ file \in Files
    /\ pos = 0
    /\ bpc = "header"
    /\ confusables = <<>>
    /\ originalHeader = <<>>
    /\ out = <<>>
    /\ confusablesMap = <<>>
    /\ calls = NoCalls

SpecBuild == InitBuild /\ [][NextBuild]_vars


\* ------------------------------------------------------------------------
\* Compatibility decomposition (norm.NFKD of golang.org/x/text), on the
\* codepoints the model uses
\* ------------------------------------------------------------------------

\* full compatibility decomposition of one codepoint
Decomposition(c) ==
    IF c = 7693 THEN <<100, 803>>                     \* ḍ = d + U+0323
    ELSE IF c = 7711 THEN <<102, 775>>                \* ḟ = f + U+0307
    ELSE IF 65281 <= c /\ c <= 65374 THEN <<c - 65248>>  \* fullwidth forms
    ELSE IF c = 181 THEN <<956>>                      \* µ -> μ
    ELSE IF c = 982 THEN <<960>>                      \* ϖ -> π
    ELSE IF c = 8575 THEN <<109>>                     \* ⅿ -> m
    ELSE <<c>>

\* canonical combining class
CCC(c) == IF c = 803 THEN 220 ELSE IF c = 775 THEN 230 ELSE 0

RECURSIVE DecomposeAll(_)
DecomposeAll(runes) ==
    CHOOSE r \in {IF rs = <<>> THEN <<>>
                  ELSE Decomposition(Head(rs)) \o DecomposeAll(Tail(rs)) :
                  rs \in {runes}} : TRUE

\* canonical ordering: combining marks sorted by class, stably
RECURSIVE CanonicalOrder(_)
CanonicalOrder(runes) ==
    CHOOSE r \in
        {LET bad == {j \in 1..(Len(rs) - 1) :
                        CCC(rs[j + 1]) > 0 /\ CCC(rs[j]) > CCC(rs[j + 1])}
         IN  IF bad = {} THEN rs
             ELSE LET j == CHOOSE x \in bad : \A y \in bad : x <= y
                  IN  CanonicalOrder([rs EXCEPT ![j] = rs[j + 1],
                                                ![j + 1] = rs[j]]) :
         rs \in {runes}} : TRUE

\* norm.NFKD.String(s): decode, decompose, reorder, encode
NFKD(s) == RunesToString(CanonicalOrder(DecomposeAll(StringToRunes(s))))

\* ------------------------------------------------------------------------
\* Skeleton engine (confusables.go)
\* ------------------------------------------------------------------------

\* body of the for loop at scan position i: the new s and w
LoopBody_AdvanceByWidth(m, s, i) ==
    LET d     == DecodeRuneInString(s, i)
        char  == d[1]
        width == d[2]
    IN  IF char \in DOMAIN m
        THEN [s |-> Slice(s, 0, i) \o m[char] \o Slice(s, i + width, Len(s)),
              w |-> width]
        ELSE [s |-> s, w |-> width]

LoopBody_KeepOriginal(m, s, i) ==
    LET d     == DecodeRuneInString(s, i)
        char  == d[1]
        width == d[2]
    IN  IF char \in DOMAIN m
        THEN [s |-> Slice(s, 0, i) \o m[char] \o Slice(s, i, Len(s)),
              w |-> Len(m[char])]
        ELSE [s |-> s, w |-> width]

LoopBody(m, s, i) ==
    LET d     == DecodeRuneInString(s, i)
        char  == d[1]
        width == d[2]
    IN  IF char \in DOMAIN m
        THEN [s |-> Slice(s, 0, i) \o m[char] \o Slice(s, i + width, Len(s)),
              w |-> Len(m[char])]
        ELSE [s |-> s, w |-> width]

\* s = norm.NFKD.String(s) after the loop
SecondNormalize_Skipped(s) == s

SecondNormalize(s) == NFKD(s)

\* s, i and w are locals of the call: a step of call p writes only call p
StoreLocal_SharedBuffer(cs, p, st) ==
    [q \in DOMAIN cs |-> IF q = p THEN st ELSE [cs[q] EXCEPT !.s = st.s]]

StoreLocal(cs, p, st) == [cs EXCEPT ![p] = st]

\* Skeleton(s) run alone, from scan position i of the loop
RECURSIVE ScanFrom(_, _, _)
ScanFrom(m, s, i) ==
    IF i < Len(s)
    THEN LET b == LoopBody(m, s, i) IN ScanFrom(m, b.s, i + b.w)
    ELSE s

Skeleton(m, s) == SecondNormalize(ScanFrom(m, NFKD(s), 0))

\* Skeleton is entered: s = norm.NFKD.String(s); i, w := 0, 0
Call(p, input) ==
    /\ bpc = "compiled"
    /\ calls[p].pc = "idle"
    /\ calls' = StoreLocal(calls, p,
                    [pc |-> "loop", arg |-> input, s |-> NFKD(input),
                     i |-> 0, w |-> 0])
    /\ UNCHANGED <<file, pos, bpc, confusables, originalHeader, out,
                   confusablesMap>>

\* one iteration of the loop: the body, then i += w
Iterate(p) ==
    /\ calls[p].pc = "loop"
    /\ calls[p].i < Len(calls[p].s)
    /\ LET b == LoopBody(confusablesMap, calls[p].s, calls[p].i)
       IN  calls' = StoreLocal(calls, p,
                        [calls[p] EXCEPT !.s = b.s, !.w = b.w,
                                         !.i = calls[p].i + b.w])
    /\ UNCHANGED <<file, pos, bpc, confusables, originalHeader, out,
                   confusablesMap>>

\* the loop condition fails: the second normalization, and the return
Finish(p) ==
    /\ calls[p].pc = "loop"
    /\ calls[p].i >= Len(calls[p].s)
    /\ calls' = StoreLocal(calls, p,
                    [calls[p] EXCEPT !.s = SecondNormalize(calls[p].s),
                                     !.pc = "done"])
    /\ UNCHANGED <<file, pos, bpc, confusables, originalHeader, out,
                   confusablesMap>>

\* ------------------------------------------------------------------------
\* The generated table, compiled into package confusables
\* ------------------------------------------------------------------------

\* a map literal with a repeated key does not compile
UniqueKeys(es) == Cardinality({es[j].k : j \in 1..Len(es)}) = Len(es)

\* var confusablesMap = map[rune]string{ ... }
MapOf(es) ==
    [c \in {es[j].k : j \in 1..Len(es)} |->
        LET j == CHOOSE x \in 1..Len(es) : es[x].k = c IN es[j].v]

InstallTable ==
    /\ bpc = "done"
    /\ UniqueKeys(out)
    /\ confusablesMap' = MapOf(out)
    /\ bpc' = "compiled"
    /\ UNCHANGED <<file, pos, confusables, originalHeader, out, calls>>

\* ------------------------------------------------------------------------
\* Inputs of the engine
\* ------------------------------------------------------------------------

\* the strings of at most n codepoints over the set R
StringsOver(R, n) == {RunesToString(rs) : rs \in SeqsUpTo(R, n)}

\* TestCompareEqual: Skeleton(s1), then Skeleton(s2), then the comparison.
\* The pairs tried: s2 is the skeleton of s1, or s1 with one key codepoint
\* replaced by its replacement string
Replaced(m, s1) ==
    UNION {{Slice(s1, 0, a) \o m[k]
               \o Slice(s1, a + Len(EncodeRune(k)), Len(s1)) :
            k \in {y \in DOMAIN m :
                      HasPrefix(Slice(s1, a, Len(s1)), EncodeRune(y))}} :
           a \in 0..Len(s1)}

\* p, d, ρ, р, ḍ, π
PipelineRunes == {112, 961, 1088, 7693, 960}

PipelineInputs == StringsOver(PipelineRunes, MaxInputLen)

\* datasets whose table the engine is run with
PipelineFiles ==
    { <<>>,
      <<CommentLine, BlankLine, Line1(Hex(961), Hex(112), TagMA)>>,
      <<CommentLine, BlankLine, Line1(Hex(961), Hex(7693), TagMA)>>,
      <<CommentLine, BlankLine, Line1(Hex(961), Hex(1088), TagMA),
        Line1(Hex(1088), Hex(112), TagMA)>>,
      <<BlankLine, Line1(Hex(961), Hex(7693), TagMA),
        Line1(Hex(803), Hex(775), TagMA)>>,
      <<BlankLine, Line1(Hex(960), Hex(110), TagMA)>> }

\* arbitrary tables: keys among p and ρ, replacements over p, ρ and ḍ
KeyRunes == {112, 961}
ReplRunes == {112, 961, 7693}
InputRunes == {112, 961, 7693}

Tables ==
    UNION {[K -> StringsOver(ReplRunes, MaxReplLen)] : K \in SUBSET KeyRunes}

Inputs == StringsOver(InputRunes, MaxInputLen)

\* tables and inputs of the concurrent calls
ConcTables ==
    { (961 :> <<112>>) @@ (112 :> <<>>),
      (112 :> (EncodeValid(961) \o EncodeValid(961))) }

ConcInputs == StringsOver(KeyRunes, MaxConcLen)

\* ------------------------------------------------------------------------
\* Specifications
\* ------------------------------------------------------------------------

\* the comparison test against the built table
NextCompare ==
    \/ \E input \in PipelineInputs : Call(1, input)
    \/ /\ calls[1].pc = "done"
       /\ \E input \in {calls[1].s}
                        \cup Replaced(confusablesMap, calls[1].arg) :
             Call(2, input)
    \/ \E p \in {1, 2} : Iterate(p)
    \/ \E p \in {1, 2} : Finish(p)

Init ==
    /\ file \in PipelineFiles
    /\ pos = 0
    /\ bpc = "header"
    /\ confusables = <<>>
    /\ originalHeader = <<>>
    /\ out = <<>>
    /\ confusablesMap = <<>>
    /\ calls = NoCalls

Next == NextBuild \/ InstallTable \/ NextCompare

\* the builder, then the engine with the table it built
Spec == Init /\ [][Next]_vars

InitEngine ==
    /\ file = <<>>
    /\ pos = 0
    /\ bpc = "compiled"
    /\ confusables = <<>>
    /\ originalHeader = <<>>
    /\ out = <<>>
    /\ calls = NoCalls

InitOne == InitEngine /\ confusablesMap \in Tables

NextOne ==
    \/ \E input \in Inputs : Call(1, input)
    \/ Iterate(1)
    \/ Finish(1)

\* one Skeleton call with an arbitrary table
SpecOne == InitOne /\ [][NextOne]_vars

\* a call that can take a step takes it
SpecOneFair == SpecOne /\ WF_vars(Iterate(1)) /\ WF_vars(Finish(1))

InitConc == InitEngine /\ confusablesMap \in ConcTables

NextConc ==
    \/ \E p \in Callers, input \in ConcInputs : Call(p, input)
    \/ \E p \in Callers : Iterate(p)
    \/ \E p \in Callers : Finish(p)

\* concurrent Skeleton calls
SpecConc == InitConc /\ [][NextConc]_vars


\* ------------------------------------------------------------------------
\* What the dataset format says of a line
\* ------------------------------------------------------------------------

StripBOM(line) ==
    IF Len(line) > 3 /\ Slice(line, 0, 3) = <<239, 187, 191>>
    THEN Slice(line, 3, Len(line)) ELSE line

IsComment(line) == line # <<>> /\ line[1] = 35

IsDataLine(line) == line # <<>> /\ ~IsComment(line)

\* a text that is a hexadecimal number in 1..0x10FFFF
ValidPointText(txt) ==
    /\ txt # <<>>
    /\ \A j \in 1..Len(txt) : HexDigitVal(txt[j]) >= 0
    /\ LET ds == StripZeros([j \in 1..Len(txt) |-> HexDigitVal(txt[j])])
       IN  /\ ds # <<>>
           /\ Len(ds) <= 6
           /\ DigitsValue(ds) <= MaxChar

PointOfText(txt) ==
    DigitsValue(StripZeros([j \in 1..Len(txt) |-> HexDigitVal(txt[j])]))

\* the codepoint texts of a three-field line
PointTexts(line) ==
    LET f == Split(line, Sep)
        t == Split(f[2], <<32>>)
    IN  {f[1]} \cup {t[j] : j \in 1..Len(t)}

HasThreeFields(line) == Len(Split(line, Sep)) = 3

\* a data line with a field count other than three or a bad codepoint
Violating(line) ==
    /\ IsDataLine(line)
    /\ \/ ~HasThreeFields(line)
       \/ \E txt \in PointTexts(line) : ~ValidPointText(txt)

\* a data line of three fields whose class tag starts with "MA"
IsMALine(line) ==
    /\ IsDataLine(line)
    /\ HasThreeFields(line)
    /\ HasPrefix(Split(line, Sep)[3], TagMA)

\* the number of lines in the header block of '#' lines
RECURSIVE HeaderLen(_)
HeaderLen(f) ==
    IF f # <<>> /\ IsComment(StripBOM(Head(f)))
    THEN 1 + HeaderLen(Tail(f)) ELSE 0

\* the indices of the MA lines after the header block, in order
RECURSIVE MAIndices(_, _)
MAIndices(f, j) ==
    IF j > Len(f) THEN <<>>
    ELSE (IF IsMALine(f[j]) THEN <<j>> ELSE <<>>) \o MAIndices(f, j + 1)

\* entry e is the one line says
EntryOfLine(e, line) ==
    LET f == Split(line, Sep)
        t == Split(f[2], <<32>>)
    IN  /\ ValidPointText(f[1]) => e.k = PointOfText(f[1])
        /\ Len(e.v) = Len(t)
        /\ \A j \in 1..Len(t) :
              ValidPointText(t[j]) => e.v[j] = PointOfText(t[j])

\* the first line parseCharacter is given
FirstParsed(f) ==
    LET ends == {j \in 1..Len(f) : parseHeader(f[j]).ended}
    IN  IF ends = {} THEN Len(f) + 1
        ELSE 1 + (CHOOSE x \in ends : \A y \in ends : x <= y)

\* ------------------------------------------------------------------------
\* Claims about the table builder (checked under SpecBuild)
\* ------------------------------------------------------------------------

\* C4: the builder fails fatally, emitting no map, whenever any non-blank,
\* non-comment line of the dataset has a field count other than three or a
\* source or target codepoint that is unparsable, zero or above 0x10FFFF,
\* whatever its class tag and wherever it stands.
C4_FatalOnAnyViolation ==
    bpc = "done" => \A j \in 1..Len(file) : ~Violating(file[j])

\* C5: parsePoint aborts the build for a text whose value is 0 or above
\* 0x10FFFF and returns the value otherwise, so that every codepoint of
\* every stored entry lies in 1..0x10FFFF.
C5_PointsInRange ==
    /\ \A n \in 1..Len(confusables) :
          /\ 1 <= confusables[n].k /\ confusables[n].k <= MaxChar
          /\ \A j \in 1..Len(confusables[n].v) :
                1 <= confusables[n].v[j] /\ confusables[n].v[j] <= MaxChar
    /\ bpc # "fatal" =>
          \A j \in FirstParsed(file)..pos :
              IsMALine(file[j]) =>
                  \A txt \in PointTexts(file[j]) :
                      /\ ValidPointText(txt)
                      /\ parsePoint(txt).point = PointOfText(txt)

\* the override rules, in order: <<pattern, replacement>> in codepoints
Rules ==
    << <<(<<114, 110>>), <<109>>>>, <<(<<960>>), <<110>>>>,
       <<(<<956>>), <<117>>>>, <<(<<967>>), <<120>>>>,
       <<(<<640>>), <<82>>>>, <<(<<4782>>), <<114>>>> >>

\* the codepoints of the string v decodes to
Decoded(v) == [j \in 1..Len(v) |-> IF ValidRune(v[j]) THEN v[j] ELSE RuneError]

\* the first rule whose pattern occurs in t, 0 if none does
FirstMatch(t) ==
    LET hits == {r \in 1..Len(Rules) : Contains(t, Rules[r][1])}
    IN  IF hits = {} THEN 0 ELSE CHOOSE r \in hits : \A q \in hits : r <= q

\* what the rule list says is emitted for entry c
RuleOutput(c) ==
    LET t == Decoded(c.v)
        r == FirstMatch(t)
    IN  IF r = 1 /\ c.k = 109 THEN <<>>
        ELSE IF r = 0 THEN <<[k |-> c.k, v |-> RunesToString(t)]>>
        ELSE <<[k |-> c.k,
                v |-> RunesToString(ReplaceAll(t, Rules[r][1], Rules[r][2]))]>>

RECURSIVE RuleOutputs(_)
RuleOutputs(cs) ==
    IF cs = <<>> THEN <<>> ELSE RuleOutput(Head(cs)) \o RuleOutputs(Tail(cs))

\* C6: for every parsed entry (k, v) the output is decided by the first
\* matching rule of the ordered list rn, π, μ, χ, ʀ, ኮ (every occurrence of
\* the pattern replaced, no later rule applied), v's string is emitted
\* unchanged when no rule matches, the key is k, and the entry is dropped
\* only when the rule is "rn" and k is "m".
C6_FirstMatchRules ==
    bpc = "done" =>
        SubSeq(out, 1, Len(out) - Len(Supplementary)) = RuleOutputs(confusables)

\* a target holding both π and μ was emitted with only π replaced, and an
\* entry m -> rn was dropped
C6_Witness ==
    /\ bpc = "done"
    /\ \E n \in 1..Len(confusables) : confusables[n].v = <<960, 956>>
    /\ \E n \in 1..Len(out) : out[n].v = <<110>> \o StrMu
    /\ \E n \in 1..Len(confusables) :
          confusables[n].k = 109 /\ confusables[n].v = <<114, 110>>

\* C7: no source codepoint is emitted more than once, counting the entries
\* derived from dataset lines and the supplementary list.
C7_UniqueKeys ==
    bpc = "done" =>
        \A a \in 1..Len(out) : \A b \in 1..Len(out) :
            out[a].k = out[b].k => a = b

\* C10: the parsed entries are, in input order, exactly the non-blank,
\* non-comment lines after the header block whose class tag starts with
\* "MA", whichever line comes right after the header block.
C10_OneEntryPerMALine ==
    (bpc \in {"make", "done"} /\ \A j \in 1..Len(file) : ~Violating(file[j])) =>
        LET idx == MAIndices(file, HeaderLen(file) + 1)
        IN  /\ Len(confusables) = Len(idx)
            /\ \A n \in 1..Len(idx) : EntryOfLine(confusables[n], file[idx[n]])


\* ------------------------------------------------------------------------
\* Claims about the skeleton engine
\* ------------------------------------------------------------------------

\* the codepoints of the normalized input of a call
Normalized(c) == StringToRunes(NFKD(c.arg))

\* a fresh buffer: each codepoint's replacement, or its own encoding
RECURSIVE FreshBuffer(_, _)
FreshBuffer(m, rs) ==
    IF rs = <<>> THEN <<>>
    ELSE (IF Head(rs) \in DOMAIN m THEN m[Head(rs)] ELSE EncodeValid(Head(rs)))
         \o FreshBuffer(m, Tail(rs))

\* C9 (SpecOne): at every point of the scan the text before the scan
\* position is the fresh-buffer image of the codepoints consumed so far and
\* the text from it on is the untouched rest of the normalized input, so
\* the string after the loop is the fresh-buffer image of the whole
\* normalized input; a string with no key codepoint is returned as its
\* normalized self.
C9_SinglePass ==
    LET c == calls[1]
        t == Normalized(c)
    IN  /\ c.pc = "loop" =>
              \E j \in 0..Len(t) :
                  /\ c.i <= Len(c.s)
                  /\ Slice(c.s, 0, c.i)
                        = FreshBuffer(confusablesMap, SubSeq(t, 1, j))
                  /\ Slice(c.s, c.i, Len(c.s))
                        = RunesToString(SubSeq(t, j + 1, Len(t)))
        /\ (c.pc = "loop" /\ c.i >= Len(c.s)) =>
              c.s = FreshBuffer(confusablesMap, t)
        /\ (c.pc = "done" /\ \A j \in 1..Len(t) : t[j] \notin DOMAIN confusablesMap)
              => c.s = NFKD(c.arg)

\* the loop has ended on a string in which a replacement that holds a key
\* codepoint stands unsubstituted
C9_Witness ==
    /\ calls[1].pc = "loop"
    /\ calls[1].i >= Len(calls[1].s)
    /\ calls[1].s # NFKD(calls[1].arg)
    /\ Len(Normalized(calls[1])) = 2
    /\ \E k \in DOMAIN confusablesMap :
          /\ k = Normalized(calls[1])[1]
          /\ confusablesMap[k] # <<>>
          /\ StringToRunes(confusablesMap[k])[1] \in DOMAIN confusablesMap

\* C3 (SpecOneFair): every iteration of the scan loop brings the scan
\* position strictly closer to the end of the string, whatever the map
\* (replacement strings of length zero included), every call that has
\* started returns, and the empty string returns the empty string.
C3_Total ==
    /\ [][(calls[1].pc = "loop" /\ calls'[1].pc = "loop")
             => /\ calls'[1].i <= Len(calls'[1].s)
                /\ Len(calls'[1].s) - calls'[1].i
                      < Len(calls[1].s) - calls[1].i]_vars
    /\ (calls[1].pc = "loop") ~> (calls[1].pc = "done")
    /\ []((calls[1].pc = "done" /\ calls[1].arg = <<>>) => calls[1].s = <<>>)

\* a call has returned after substituting a replacement of length zero
C3_Witness ==
    /\ calls[1].pc = "done"
    /\ \E j \in 1..Len(Normalized(calls[1])) :
          /\ Normalized(calls[1])[j] \in DOMAIN confusablesMap
          /\ confusablesMap[Normalized(calls[1])[j]] = <<>>

\* C8 (SpecConc): with the steps of the calls interleaved, each call
\* returns what Skeleton returns for its input when run alone, and no step
\* changes the map.
C8_Independent ==
    /\ [][confusablesMap' = confusablesMap]_vars
    /\ [](\A p \in Callers :
             calls[p].pc = "done"
                => calls[p].s = Skeleton(confusablesMap, calls[p].arg))

\* two calls on different inputs are both in the middle of their scans,
\* each having substituted
C8_Witness ==
    /\ calls[1].pc = "loop" /\ calls[2].pc = "loop"
    /\ calls[1].arg # calls[2].arg
    /\ calls[1].s # NFKD(calls[1].arg)
    /\ calls[2].s # NFKD(calls[2].arg)

\* no codepoint of the normalized form of a replacement string is a key
Closed(m) ==
    \A k \in DOMAIN m :
        \A c \in {StringToRunes(NFKD(m[k]))[j] :
                     j \in 1..Len(StringToRunes(NFKD(m[k])))} :
            c \notin DOMAIN m

\* the second call of the comparison test was given the first one's result
Reapplied ==
    /\ calls[1].pc = "done" /\ calls[2].pc = "done"
    /\ calls[2].arg = calls[1].s

\* C1 as stated (Spec): Skeleton(Skeleton(s)) = Skeleton(s) for the map as
\* built.
C1_Idempotent == Reapplied => calls[2].s = calls[1].s

\* C1 as amended (Spec): Skeleton(Skeleton(s)) = Skeleton(s) whenever no
\* codepoint of the normalized form of any replacement string of the built
\* map is itself a key of the map.
C1_IdempotentWhenClosed ==
    (Reapplied /\ Closed(confusablesMap)) => calls[2].s = calls[1].s

\* the skeleton of a string that the scan changed was taken again, with a
\* table built from a dataset line
C1_Witness ==
    /\ Reapplied
    /\ Closed(confusablesMap)
    /\ confusables # <<>>
    /\ calls[1].s # NFKD(calls[1].arg)

\* C2 (Spec): for every key k with replacement r and all strings a and b,
\* Skeleton(a + k + b) = Skeleton(a + r + b).
C2_KeyCollapses ==
    (/\ calls[1].pc = "done" /\ calls[2].pc = "done"
     /\ calls[2].arg \in Replaced(confusablesMap, calls[1].arg))
        => calls[2].s = calls[1].s

=============================================================================
